---- MODULE Spec2Model ----
(***************************************************************************)
(* Model of src/minesweeper.py: the Sentence class and the MinesweeperAI   *)
(* knowledge base (mark_mine, mark_safe, add_knowledge, make_safe_move,    *)
(* make_random_move, mark_mines_safes, draw_interferences), together with  *)
(* the board functions of Minesweeper that produce truthful observations.  *)
(*                                                                         *)
(* A cell is a pair <<row, col>>.  A Sentence object is a record           *)
(* [id, cells, count]; id stands for the identity of the Python object     *)
(* (Sentence.__eq__ compares cells and count only).  self.knowledge is the *)
(* sequence of the sentences, in list order.                               *)
(*                                                                         *)
(* add_knowledge is modelled statement by statement: pc is the position    *)
(* inside the running call and loc holds its local variables.  Every step  *)
(* of a running call is one call of self.mark_mine / self.mark_safe, one   *)
(* rewrite of a sentence by draw_interferences, the append of the new      *)
(* sentence, or a return; while a call runs no other operation is enabled. *)
(***************************************************************************)
EXTENDS Integers, Sequences, FiniteSets, TLC

VARIABLES
    height,      \* MinesweeperAI.height
    width,       \* MinesweeperAI.width
    board,       \* Minesweeper.mines: the mine layout of the game being played
    moves_made,  \* MinesweeperAI.moves_made
    safes,       \* MinesweeperAI.safes
    mines,       \* MinesweeperAI.mines
    knowledge,   \* MinesweeperAI.knowledge
    pc,          \* position inside the running add_knowledge call, or "idle"
    loc,         \* local variables of the running call
    ret,         \* value returned by the last finished call
    lastop,      \* the last mutating call: [op, cell, count, rep]
    pre,         \* moves_made, safes, mines, knowledge when that call started
    ncalls       \* number of mutating calls made so far

vars == <<height, width, board, moves_made, safes, mines, knowledge,
          pc, loc, ret, lastop, pre, ncalls>>

(***************************************************************************)
(* Bounds of the model.                                                    *)
(***************************************************************************)
MaxCells == 6
MaxObs == 3
MaxAnyCells == 3
MaxObsCells == 4
MaxCalls == 3

MaxPrior == 2

MaxSide == 3

MaxBoardMines == 2

MaxDrawCells == 3

MaxAddCells == 2

(***************************************************************************)
(* Python values.                                                          *)
(***************************************************************************)
None == [none |-> TRUE]
Some(v) == [none |-> FALSE, val |-> v]

NoCell == <<>>

Min(S) == CHOOSE x \in S : \A y \in S : x <= y

\* `a or b` on sets: a when a is truthy (non-empty), else b.
PyOr(a, b) == IF a # {} THEN a ELSE b

(***************************************************************************)
(* The grid and the board (class Minesweeper).                             *)
(***************************************************************************)
Grid == (0 .. height - 1) \X (0 .. width - 1)

\* The cells within one row and column of cell, in bounds, cell excluded.
Neighbors(cell) ==
    {n \in Grid : /\ n # cell
                  /\ cell[1] - 1 <= n[1] /\ n[1] <= cell[1] + 1
                  /\ cell[2] - 1 <= n[2] /\ n[2] <= cell[2] + 1}

is_mine(cell) == cell \in board

nearby_mines(cell) == Cardinality({n \in Neighbors(cell) : is_mine(n)})

(***************************************************************************)
(* class Sentence.                                                         *)
(***************************************************************************)
Sentence(id, cells, count) == [id |-> id, cells |-> cells, count |-> count]

SentenceEq(a, b) == a.cells = b.cells /\ a.count = b.count

\* `self.cells == 0`: a set compared with an int is never equal.
SetEqInt(cells, n) == FALSE

known_mines(s) == IF Cardinality(s.cells) = s.count THEN Some(s.cells) ELSE None

known_safes(s) == IF SetEqInt(s.cells, 0) THEN Some(s.cells) ELSE None

\* Mutant of SentenceMarkMine: the count drops whether or not the cell is there.
SentenceMarkMineAlways(s, cell) ==
    [s EXCEPT !.cells = @ \ {cell}, !.count = @ - 1]

SentenceMarkMine(s, cell) ==
    IF cell \in s.cells
    THEN [s EXCEPT !.cells = @ \ {cell}, !.count = @ - 1]
    ELSE s

\* Mutant of SentenceMarkSafe: the count drops as in mark_mine.
SentenceMarkSafeDecrement(s, cell) ==
    IF cell \in s.cells
    THEN [s EXCEPT !.cells = @ \ {cell}, !.count = @ - 1]
    ELSE s

SentenceMarkSafe(s, cell) ==
    IF cell \in s.cells
    THEN [s EXCEPT !.cells = @ \ {cell}]
    ELSE s

(***************************************************************************)
(* MinesweeperAI.mark_mine / mark_safe on the knowledge list.              *)
(***************************************************************************)
\* list.remove(e): drops the first element equal (by __eq__) to e.
ListRemove(k, e) ==
    LET idx == {i \in 1 .. Len(k) : SentenceEq(k[i], e)}
    IN  IF idx = {} THEN k
        ELSE SubSeq(k, 1, Min(idx) - 1) \o SubSeq(k, Min(idx) + 1, Len(k))

RECURSIVE RemoveEach(_, _)
RemoveEach(k, empty) ==
    IF empty = <<>> THEN k
    ELSE RemoveEach(ListRemove(k, Head(empty)), Tail(empty))

IsEmptySentence(s) == Cardinality(s.cells) = 0

\* Mutant of KnowledgeMarkMine: lines 171-172 left out, empty sentences stay.
KnowledgeMarkMineKeepEmpty(k, cell) ==
    [i \in 1 .. Len(k) |-> SentenceMarkMine(k[i], cell)]

KnowledgeMarkMine(k, cell) ==
    LET marked == [i \in 1 .. Len(k) |-> SentenceMarkMine(k[i], cell)]
    IN  RemoveEach(marked, SelectSeq(marked, IsEmptySentence))

KnowledgeMarkSafe(k, cell) ==
    LET marked == [i \in 1 .. Len(k) |-> SentenceMarkSafe(k[i], cell)]
    IN  RemoveEach(marked, SelectSeq(marked, IsEmptySentence))

\* Mutant of AIMarkMine: the cell marked a mine is also taken out of safes.
AIMarkMineExclusive(cell) ==
    /\ mines' = mines \cup {cell}
    /\ safes' = safes \ {cell}
    /\ knowledge' = KnowledgeMarkMine(knowledge, cell)
    /\ UNCHANGED moves_made

\* self.mark_mine(cell)
AIMarkMine(cell) ==
    /\ mines' = mines \cup {cell}
    /\ knowledge' = KnowledgeMarkMine(knowledge, cell)
    /\ UNCHANGED <<safes, moves_made>>

\* self.mark_safe(cell)
AIMarkSafe(cell) ==
    /\ safes' = safes \cup {cell}
    /\ knowledge' = KnowledgeMarkSafe(knowledge, cell)
    /\ UNCHANGED <<mines, moves_made>>

AIMark(kind, cell) == IF kind = "mine" THEN AIMarkMine(cell) ELSE AIMarkSafe(cell)

(***************************************************************************)
(* Bookkeeping of calls.                                                   *)
(***************************************************************************)
NoLoc == [cells |-> {}, count |-> 0, kind |-> "none", pending |-> {},
          snap |-> <<>>, pos |-> 0, drawn |-> FALSE, caller |-> "none"]

State == [moves_made |-> moves_made, safes |-> safes, mines |-> mines,
          knowledge |-> knowledge]

\* rep: the call repeats the call before it (same operation, same argument).
Call(op, cell, count) ==
    /\ lastop' = [op |-> op, cell |-> cell, count |-> count,
                  rep |-> (lastop.op = op /\ lastop.cell = cell /\ lastop.count = count)]
    /\ pre' = State

Ids(k) == [i \in 1 .. Len(k) |-> k[i].id]

Live(id) == \E i \in 1 .. Len(knowledge) : knowledge[i].id = id

ById(id) == knowledge[CHOOSE i \in 1 .. Len(knowledge) : knowledge[i].id = id]

\* The identity of a newly constructed Sentence: one no sentence of k has.
FreshId(k) == Min((1 .. Len(k) + 1) \ {k[i].id : i \in 1 .. Len(k)})

(***************************************************************************)
(* add_knowledge, lines 204-226: record the move, mark the cell safe and   *)
(* build the cells and the count of the new sentence.                      *)
(***************************************************************************)
\* The set the neighbours are tested against on line 222.
Clicked(mm, mi, sf) == PyOr(PyOr(mm, mi), sf)

NewCells(cell, known) == {n \in Neighbors(cell) : n \notin known}

NewCount(cell, count, known, mi) ==
    count - Cardinality({n \in Neighbors(cell) : n \in known /\ n \in mi})

\* Mutant of BranchKind: `len(cells) >= count` in place of `==`.
BranchKindEager(cells, count) ==
    IF count = 0 THEN "safe"
    ELSE IF Cardinality(cells) >= count THEN "mine"
    ELSE "none"

\* Which of the branches of lines 228-236 is taken.
BranchKind(cells, count) ==
    IF count = 0 THEN "safe"
    ELSE IF Cardinality(cells) = count THEN "mine"
    ELSE "none"

\* Lines 204-226 run on the sets and the list of st.
AddKnowledgeOn(st, cell, count) ==
    LET mm == st.moves_made \cup {cell}
        sf == st.safes \cup {cell}
        known == Clicked(mm, st.mines, sf)
        cells == NewCells(cell, known)
        cnt == NewCount(cell, count, known, st.mines)
        kind == BranchKind(cells, cnt)
    IN  /\ moves_made' = mm
        /\ safes' = sf
        /\ knowledge' = KnowledgeMarkSafe(st.knowledge, cell)
        /\ mines' = st.mines
        /\ loc' = [NoLoc EXCEPT !.cells = cells, !.count = cnt, !.kind = kind,
                                !.pending = IF kind = "none" THEN {} ELSE cells,
                                !.caller = "ak"]
        /\ pc' = IF kind # "none" /\ cells # {} THEN "ak_mark" ELSE "ak_append"
        /\ ret' = None

AddKnowledge(cell, count) ==
    /\ pc = "idle"
    /\ AddKnowledgeOn(State, cell, count)
    /\ Call("add_knowledge", cell, count)
    /\ UNCHANGED <<height, width, board>>

\* Lines 228-236: one iteration of `for neighbor in cells`.
AkMark ==
    /\ pc = "ak_mark"
    /\ \E c \in loc.pending :
          /\ AIMark(loc.kind, c)
          /\ loc' = [loc EXCEPT !.pending = @ \ {c}]
          /\ pc' = IF loc.pending = {c} THEN "ak_append" ELSE "ak_mark"
    /\ UNCHANGED <<height, width, board, ret, lastop, pre, ncalls>>

\* Lines 239-243: append the new sentence and enter mark_mines_safes.
AkAppend ==
    /\ pc = "ak_append"
    /\ knowledge' = Append(knowledge, Sentence(FreshId(knowledge), loc.cells, loc.count))
    /\ loc' = [loc EXCEPT !.snap = Ids(knowledge'), !.pos = 1, !.pending = {},
                          !.kind = "none", !.caller = "ak"]
    /\ pc' = "mms"
    /\ UNCHANGED <<height, width, board, moves_made, safes, mines,
                   ret, lastop, pre, ncalls>>

(***************************************************************************)
(* mark_mines_safes, lines 283-295.  loc.snap is copy_knowledge, loc.pos   *)
(* the next position in it, loc.pending what is left of copy_cells.        *)
(* A sentence of the copy that was removed from the list has no cells, so  *)
(* visiting it marks nothing.                                              *)
(***************************************************************************)
MmsKind(s) ==
    IF Cardinality(s.cells) = s.count THEN "mine"
    ELSE IF s.count = 0 THEN "safe"
    ELSE "none"

\* The positions of the copy, from loc.pos on, whose visit marks a cell.
MmsToVisit ==
    {p \in loc.pos .. Len(loc.snap) :
        /\ Live(loc.snap[p])
        /\ ById(loc.snap[p]).cells # {}
        /\ MmsKind(ById(loc.snap[p])) # "none"}

MmsMark ==
    /\ pc = "mms"
    /\ \/ /\ loc.pending # {}
          /\ \E c \in loc.pending :
                /\ AIMark(loc.kind, c)
                /\ loc' = [loc EXCEPT !.pending = @ \ {c}]
       \/ /\ loc.pending = {}
          /\ MmsToVisit # {}
          /\ LET p == Min(MmsToVisit)
                 s == ById(loc.snap[p])
             IN  \E c \in s.cells :
                    /\ AIMark(MmsKind(s), c)
                    /\ loc' = [loc EXCEPT !.pending = s.cells \ {c},
                                          !.kind = MmsKind(s), !.pos = p + 1]
    /\ pc' = "mms"
    /\ UNCHANGED <<height, width, board, ret, lastop, pre, ncalls>>

\* mark_mines_safes returns: to add_knowledge line 246 (draw_interferences
\* starts, drawn = True), or to the while test of line 301.
MmsReturn ==
    /\ pc = "mms"
    /\ loc.pending = {}
    /\ MmsToVisit = {}
    /\ IF loc.caller = "ak" \/ loc.drawn
       THEN /\ pc' = "di"
            /\ loc' = [loc EXCEPT !.snap = Ids(knowledge), !.pos = 1,
                                  !.drawn = FALSE, !.kind = "none", !.caller = "di"]
       ELSE /\ pc' = "idle"
            /\ loc' = NoLoc
    /\ UNCHANGED <<height, width, board, moves_made, safes, mines, knowledge,
                   ret, lastop, pre, ncalls>>

(***************************************************************************)
(* draw_interferences, lines 298-315.  loc.snap is copy_knowledge and      *)
(* loc.pos the next pair (sentence1, sentence2) of the two for loops,      *)
(* numbered row by row from 1.                                             *)
(***************************************************************************)
PairFirst(p) == ById(loc.snap[((p - 1) \div Len(loc.snap)) + 1])

PairSecond(p) == ById(loc.snap[((p - 1) % Len(loc.snap)) + 1])

\* Mutant of Interferes: the subset test of line 310 the wrong way round.
InterferesReversed(s1, s2) ==
    /\ ~SentenceEq(s1, s2)
    /\ Cardinality(s1.cells) # 0
    /\ Cardinality(s2.cells) # 0
    /\ s2.cells \subseteq s1.cells

\* Mutant of Interferes: the test of line 309 that sentence1 has cells left out.
InterferesWithEmpty(s1, s2) ==
    /\ ~SentenceEq(s1, s2)
    /\ Cardinality(s2.cells) # 0
    /\ s1.cells \subseteq s2.cells

\* Lines 309-310.
Interferes(s1, s2) ==
    /\ ~SentenceEq(s1, s2)
    /\ Cardinality(s1.cells) # 0
    /\ Cardinality(s2.cells) # 0
    /\ s1.cells \subseteq s2.cells

\* Mutant of Resolve: line 312 left out.
ResolveKeepCount(s1, s2) ==
    [s2 EXCEPT !.cells = s2.cells \ s1.cells]

\* Lines 311-312.
Resolve(s1, s2) ==
    [s2 EXCEPT !.cells = s2.cells \ s1.cells, !.count = s2.count - s1.count]

DiPairs ==
    {p \in loc.pos .. Len(loc.snap) * Len(loc.snap) :
        Interferes(PairFirst(p), PairSecond(p))}

DiResolve ==
    /\ pc = "di"
    /\ DiPairs # {}
    /\ LET p == Min(DiPairs)
           s1 == PairFirst(p)
           s2 == PairSecond(p)
       IN  /\ knowledge' = [i \in 1 .. Len(knowledge) |->
                               IF knowledge[i].id = s2.id THEN Resolve(s1, s2)
                               ELSE knowledge[i]]
           /\ loc' = [loc EXCEPT !.pos = p + 1, !.drawn = TRUE]
    /\ pc' = "di"
    /\ UNCHANGED <<height, width, board, moves_made, safes, mines,
                   ret, lastop, pre, ncalls>>

\* The for loops end: line 315 calls mark_mines_safes.
DiPassEnd ==
    /\ pc = "di"
    /\ DiPairs = {}
    /\ pc' = "mms"
    /\ loc' = [loc EXCEPT !.snap = Ids(knowledge), !.pos = 1, !.pending = {},
                          !.kind = "none", !.caller = "di"]
    /\ UNCHANGED <<height, width, board, moves_made, safes, mines, knowledge,
                   ret, lastop, pre, ncalls>>

(***************************************************************************)
(* make_safe_move, lines 250-263, and make_random_move, lines 265-281.     *)
(***************************************************************************)
\* Mutant of SafeCells: the moves made are not taken out.
SafeCellsAll(sf, mm) == sf

SafeCells(sf, mm) == sf \ mm

\* Mutant of RandomCells: the known mines are not taken out.
RandomCellsUnclicked(mm, mi) == {c \in Grid : c \notin mm}

RandomCells(mm, mi) == {c \in Grid : c \notin mm /\ c \notin mi}

\* The values `return` can give for the candidate set: None when it is
\* empty, else any element (set.pop, random.choice).
Pick(cells) == IF cells = {} THEN {None} ELSE {Some(c) : c \in cells}

MakeSafeMove ==
    /\ pc = "idle"
    /\ ret' \in Pick(SafeCells(safes, moves_made))
    /\ pc' = "safe_move"
    /\ UNCHANGED <<height, width, board, moves_made, safes, mines, knowledge,
                   loc, lastop, pre, ncalls>>

MakeRandomMove ==
    /\ pc = "idle"
    /\ ret' \in Pick(RandomCells(moves_made, mines))
    /\ pc' = "random_move"
    /\ UNCHANGED <<height, width, board, moves_made, safes, mines, knowledge,
                   loc, lastop, pre, ncalls>>

\* The caller takes the returned move; the engine is ready for the next call.
MoveReturn ==
    /\ pc \in {"safe_move", "random_move"}
    /\ pc' = "idle"
    /\ ret' = None
    /\ UNCHANGED <<height, width, board, moves_made, safes, mines, knowledge,
                   loc, lastop, pre, ncalls>>

(***************************************************************************)
(* Spec: a game.  The board is fixed at the start; the controller reveals  *)
(* cells that hold no mine and passes the board's count to add_knowledge.  *)
(***************************************************************************)
InitAI ==
    /\ moves_made = {}
    /\ safes = {}
    /\ mines = {}
    /\ knowledge = <<>>
    /\ pc = "idle"
    /\ loc = NoLoc
    /\ ret = None
    /\ lastop = [op |-> "init", cell |-> NoCell, count |-> 0, rep |-> FALSE]
    /\ pre = [moves_made |-> {}, safes |-> {}, mines |-> {}, knowledge |-> <<>>]
    /\ ncalls = 0

Init ==
    /\ height \in 1 .. MaxCells
    /\ width \in 1 .. MaxCells
    /\ height * width <= MaxCells
    /\ board \in SUBSET ((0 .. height - 1) \X (0 .. width - 1))
    /\ InitAI

Observe ==
    /\ ncalls < MaxObs
    /\ \E cell \in Grid :
          /\ ~is_mine(cell)
          /\ AddKnowledge(cell, nearby_mines(cell))
    /\ ncalls' = ncalls + 1

Next ==
    \/ Observe
    \/ AkMark
    \/ AkAppend
    \/ MmsMark
    \/ MmsReturn
    \/ DiResolve
    \/ DiPassEnd
    \/ MakeSafeMove
    \/ MakeRandomMove
    \/ MoveReturn

Spec == Init /\ [][Next]_vars

(***************************************************************************)
(* SpecAny: any caller.  add_knowledge, mark_mine and mark_safe are called *)
(* with any cell, in or just outside the grid, and any count from -1 to    *)
(* one more than the cell has neighbours.  There is no board.              *)
(***************************************************************************)
OutCells == {<<-1, 0>>}

AnyCells == Grid \cup OutCells

AnyCounts(cell) == -1 .. Cardinality(Neighbors(cell)) + 1

InitAny ==
    /\ height \in 1 .. MaxAnyCells
    /\ width \in 1 .. MaxAnyCells
    /\ height * width <= MaxAnyCells
    /\ board = {}
    /\ InitAI

AnyAddKnowledge ==
    /\ ncalls < MaxCalls
    /\ \E cell \in AnyCells : \E count \in AnyCounts(cell) :
          AddKnowledge(cell, count)
    /\ ncalls' = ncalls + 1

\* MinesweeperAI.mark_mine(cell), called from outside.
MarkMine ==
    /\ pc = "idle"
    /\ ncalls < MaxCalls
    /\ \E cell \in AnyCells :
          /\ AIMarkMine(cell)
          /\ Call("mark_mine", cell, 0)
    /\ ncalls' = ncalls + 1
    /\ ret' = None
    /\ UNCHANGED <<height, width, board, pc, loc>>

\* MinesweeperAI.mark_safe(cell), called from outside.
MarkSafe ==
    /\ pc = "idle"
    /\ ncalls < MaxCalls
    /\ \E cell \in AnyCells :
          /\ AIMarkSafe(cell)
          /\ Call("mark_safe", cell, 0)
    /\ ncalls' = ncalls + 1
    /\ ret' = None
    /\ UNCHANGED <<height, width, board, pc, loc>>

NextAny ==
    \/ AnyAddKnowledge
    \/ MarkMine
    \/ MarkSafe
    \/ AkMark
    \/ AkAppend
    \/ MmsMark
    \/ MmsReturn
    \/ DiResolve
    \/ DiPassEnd
    \/ MakeSafeMove
    \/ MakeRandomMove
    \/ MoveReturn

SpecAny == InitAny /\ [][NextAny]_vars

(***************************************************************************)
(* SpecMarks: any caller who repeats a mark.  Up to MaxPrior calls of      *)
(* add_knowledge, mark_mine or mark_safe with any arguments, then one more *)
(* mark; a mark call may be followed at once by the same call again.       *)
(***************************************************************************)
PriorAddKnowledge ==
    /\ ncalls < MaxPrior
    /\ \E cell \in AnyCells : \E count \in AnyCounts(cell) :
          AddKnowledge(cell, count)
    /\ ncalls' = ncalls + 1

MarkOp(kind) == IF kind = "mine" THEN "mark_mine" ELSE "mark_safe"

\* MinesweeperAI.mark_mine(cell) or mark_safe(cell), called from outside.
MarkOnce ==
    /\ pc = "idle"
    /\ ncalls <= MaxPrior
    /\ \E kind \in {"mine", "safe"} : \E cell \in AnyCells :
          /\ AIMark(kind, cell)
          /\ Call(MarkOp(kind), cell, 0)
    /\ ncalls' = ncalls + 1
    /\ ret' = None
    /\ UNCHANGED <<height, width, board, pc, loc>>

\* The same mark call again, right after the first.
MarkAgain ==
    /\ pc = "idle"
    /\ lastop.op \in {"mark_mine", "mark_safe"}
    /\ ~lastop.rep
    /\ AIMark(IF lastop.op = "mark_mine" THEN "mine" ELSE "safe", lastop.cell)
    /\ Call(lastop.op, lastop.cell, 0)
    /\ ret' = None
    /\ UNCHANGED <<height, width, board, pc, loc, ncalls>>

NextMarks ==
    \/ PriorAddKnowledge
    \/ MarkOnce
    \/ MarkAgain
    \/ AkMark
    \/ AkAppend
    \/ MmsMark
    \/ MmsReturn
    \/ DiResolve
    \/ DiPassEnd

SpecMarks == InitAny /\ [][NextMarks]_vars

(***************************************************************************)
(* SpecObs: a controller whose observations are each well formed (a cell   *)
(* of the grid not revealed before, a count from 0 to the number of its    *)
(* neighbours) but need not be the counts of any board.                    *)
(***************************************************************************)
InitObs ==
    /\ height \in 1 .. MaxObsCells
    /\ width \in 1 .. MaxObsCells
    /\ height * width <= MaxObsCells
    /\ board = {}
    /\ InitAI

WellFormedObserve ==
    /\ ncalls < MaxCalls
    /\ \E cell \in Grid \ moves_made :
          \E count \in 0 .. Cardinality(Neighbors(cell)) :
             AddKnowledge(cell, count)
    /\ ncalls' = ncalls + 1

NextObs ==
    \/ WellFormedObserve
    \/ AkMark
    \/ AkAppend
    \/ MmsMark
    \/ MmsReturn
    \/ DiResolve
    \/ DiPassEnd

SpecObs == InitObs /\ [][NextObs]_vars

(***************************************************************************)
(* SpecSentence: one Sentence object, constructed from any cells of the    *)
(* grid and any count from -1 to one more than it has cells, and the       *)
(* methods of class Sentence called on it.  knowledge holds the object.    *)
(***************************************************************************)
InitSentence ==
    /\ height \in 1 .. MaxAnyCells
    /\ width \in 1 .. MaxAnyCells
    /\ height * width <= MaxAnyCells
    /\ board = {}
    /\ moves_made = {}
    /\ safes = {}
    /\ mines = {}
    /\ \E cells \in SUBSET ((0 .. height - 1) \X (0 .. width - 1)) :
          \E count \in -1 .. Cardinality(cells) + 1 :
             knowledge = <<Sentence(1, cells, count)>>
    /\ pc = "idle"
    /\ loc = NoLoc
    /\ ret = None
    /\ lastop = [op |-> "init", cell |-> NoCell, count |-> 0, rep |-> FALSE]
    /\ pre = [moves_made |-> {}, safes |-> {}, mines |-> {}, knowledge |-> knowledge]
    /\ ncalls = 0

SentenceKnownMines ==
    /\ ret' = known_mines(knowledge[1])
    /\ Call("known_mines", NoCell, 0)
    /\ UNCHANGED <<height, width, board, moves_made, safes, mines, knowledge,
                   pc, loc, ncalls>>

SentenceKnownSafes ==
    /\ ret' = known_safes(knowledge[1])
    /\ Call("known_safes", NoCell, 0)
    /\ UNCHANGED <<height, width, board, moves_made, safes, mines, knowledge,
                   pc, loc, ncalls>>

SentenceCallMarkMine ==
    /\ \E cell \in AnyCells :
          /\ knowledge' = <<SentenceMarkMine(knowledge[1], cell)>>
          /\ Call("mark_mine", cell, 0)
    /\ ret' = None
    /\ UNCHANGED <<height, width, board, moves_made, safes, mines, pc, loc, ncalls>>

SentenceCallMarkSafe ==
    /\ \E cell \in AnyCells :
          /\ knowledge' = <<SentenceMarkSafe(knowledge[1], cell)>>
          /\ Call("mark_safe", cell, 0)
    /\ ret' = None
    /\ UNCHANGED <<height, width, board, moves_made, safes, mines, pc, loc, ncalls>>

NextSentence ==
    \/ SentenceKnownMines
    \/ SentenceKnownSafes
    \/ SentenceCallMarkMine
    \/ SentenceCallMarkSafe

SpecSentence == InitSentence /\ [][NextSentence]_vars

(***************************************************************************)
(* Properties.                                                             *)
(***************************************************************************)
Sentences == {knowledge[i] : i \in 1 .. Len(knowledge)}

CountInRange(s) == 0 <= s.count /\ s.count <= Cardinality(s.cells)

LastCall(op) == pc = "idle" /\ lastop.op = op

\* C1 (Spec): soundness.  In a game every cell of safes holds no mine,
\* every cell of mines holds a mine, every sentence of knowledge has as
\* count the number of its cells that hold a mine, and make_safe_move
\* never returns a cell that holds a mine.
C1_Soundness ==
    /\ \A c \in safes : ~is_mine(c)
    /\ \A c \in mines : is_mine(c)
    /\ \A s \in Sentences : s.count = Cardinality(s.cells \cap board)
    /\ (pc = "safe_move" /\ ret # None) => ~is_mine(ret.val)

C1_Witness ==
    /\ pc = "safe_move"
    /\ ret # None
    /\ mines # {}
    /\ \E s \in Sentences : s.count >= 1 /\ Cardinality(s.cells) > s.count

\* C2 (Spec): in a game safes and mines are disjoint and every move made
\* is in safes.
C2_DisjointAndMovesSafe ==
    /\ safes \cap mines = {}
    /\ moves_made \subseteq safes

C2_Witness ==
    /\ pc = "idle"
    /\ mines # {}
    /\ moves_made # {}
    /\ safes \ moves_made # {}

\* C3 (Spec): in a game, at every step of add_knowledge (between the
\* calls of mark_mine and mark_safe made by add_knowledge and by
\* mark_mines_safes, and after every rewrite of draw_interferences), every
\* sentence of knowledge has 0 <= count <= number of its cells.
C3_CountInRange == \A s \in Sentences : CountInRange(s)

\* draw_interferences has just rewritten a sentence, to one that is not
\* resolved, while another call of mark_mines_safes is still to come.
C3_Witness ==
    /\ pc = "di"
    /\ loc.drawn
    /\ \E s \in Sentences : s.count >= 1 /\ Cardinality(s.cells) > s.count
    /\ mines # {}

\* C4 (Spec): make_safe_move returns a cell of safes minus moves_made when
\* that set is not empty and None exactly when it is empty, and leaves
\* safes, mines, moves_made and knowledge as they were.
C4_MakeSafeMove ==
    [][pc' = "safe_move" =>
          /\ UNCHANGED <<safes, mines, moves_made, knowledge>>
          /\ (safes \ moves_made # {}) =>
                (ret' # None /\ ret'.val \in safes \ moves_made)
          /\ (ret' = None) <=> (safes \ moves_made = {})]_vars

C4_Witness ==
    /\ pc = "safe_move"
    /\ ret # None
    /\ moves_made # {}
    /\ knowledge # <<>>

\* C5 (Spec): make_random_move never returns a cell of moves_made or of
\* mines; it returns a cell of the grid when some cell of the grid is in
\* neither, and None exactly when every cell of the grid is in one of them.
C5_MakeRandomMove ==
    pc = "random_move" =>
        /\ (ret # None) =>
              (ret.val \in Grid /\ ret.val \notin moves_made /\ ret.val \notin mines)
        /\ (\E c \in Grid : c \notin moves_made /\ c \notin mines) => ret # None
        /\ (ret = None) <=> (\A c \in Grid : c \in moves_made \/ c \in mines)

C5_Witness ==
    /\ pc = "random_move"
    /\ ret # None
    /\ moves_made # {}
    /\ mines # {}

\* What the claim C6 calls a valid observation, in the state mm of moves_made
\* at the call.
ValidObservation(cell, count, mm) ==
    /\ cell \in Grid
    /\ cell \notin mm
    /\ 0 <= count
    /\ count <= Cardinality(Neighbors(cell))

\* C6 (SpecAny): add_knowledge called with a cell outside the grid, a cell
\* already in moves_made, a negative count or a count above the number of
\* neighbours leaves moves_made, safes, mines and knowledge as they were.
\* (add_knowledge has no way to fail: it always returns None.)
C6_InvalidObservationRejected ==
    (/\ LastCall("add_knowledge")
     /\ ~ValidObservation(lastop.cell, lastop.count, pre.moves_made))
    => State = pre

\* C7 (SpecObs): whatever the calls of add_knowledge, no cell is in both
\* safes and mines and no sentence has a count below 0 or above the number
\* of its cells.  (No operation reports an error, so every state reached
\* is reached silently.)
C7_NoSilentInconsistency ==
    /\ safes \cap mines = {}
    /\ \A s \in Sentences : CountInRange(s)

\* C8 (SpecObs): when add_knowledge(cell, 0) has returned, for a cell of
\* the grid and whatever the calls made before, every neighbour of cell in
\* the grid is in safes.
C8_ZeroCountNeighboursSafe ==
    (LastCall("add_knowledge") /\ lastop.count = 0 /\ lastop.cell \in Grid)
    => Neighbors(lastop.cell) \subseteq safes

\* C9 (SpecSentence): for a sentence with 0 <= count <= number of cells
\* (and, to leave the empty sentence aside, at least one cell), known_safes returns the cells exactly when count = 0, and known_mines
\* returns the cells exactly when the number of cells equals count.
C9_KnownSafesKnownMines ==
    (CountInRange(knowledge[1]) /\ knowledge[1].cells # {}) =>
        /\ LastCall("known_safes") =>
              ((ret = Some(knowledge[1].cells)) <=> (knowledge[1].count = 0))
        /\ LastCall("known_mines") =>
              ((ret = Some(knowledge[1].cells))
                 <=> (Cardinality(knowledge[1].cells) = knowledge[1].count))

\* C10 (SpecMarks): mark_mine and mark_safe of MinesweeperAI are idempotent:
\* the second of two calls in a row with the same cell leaves safes, mines,
\* moves_made and knowledge as the first call left them.
C10_MarkIdempotent ==
    (/\ pc = "idle"
     /\ lastop.op \in {"mark_mine", "mark_safe"}
     /\ lastop.rep)
    => State = pre

\* On a row of three cells: add_knowledge((0,1), 1) gave {(0,0),(0,2)} = 1,
\* mark_mine((0,0)) made it {(0,2)} = 0, and mark_mine((0,0)) was called again.
C10_Witness ==
    /\ height = 1 /\ width = 3
    /\ pc = "idle"
    /\ lastop.op = "mark_mine" /\ lastop.cell = <<0, 0>> /\ lastop.rep
    /\ ncalls = 2
    /\ knowledge = <<Sentence(1, {<<0, 2>>}, 0)>>

(***************************************************************************)
(* C11: the effect of MinesweeperAI.mark_mine / mark_safe.                 *)
(***************************************************************************)
NonEmptySentence(s) == s.cells # {}

\* k with cell taken out of every sentence that holds it, the count of such
\* a sentence lowered by dec, and the sentences left without cells dropped.
CellTakenOut(k, cell, dec) ==
    SelectSeq([i \in 1 .. Len(k) |->
                  IF cell \in k[i].cells
                  THEN Sentence(k[i].id, k[i].cells \ {cell}, k[i].count - dec)
                  ELSE k[i]],
              NonEmptySentence)

\* C11 (SpecMarks): mark_mine(cell) adds cell to mines, takes cell out of
\* every sentence that held it and lowers that sentence's count by exactly 1,
\* leaves the other sentences as they were, removes exactly the sentences
\* that now have no cells, and leaves safes and moves_made unchanged;
\* mark_safe(cell) does the same with safes for mines and no count changed.
C11_MarkEffect ==
    /\ LastCall("mark_mine") =>
          /\ mines = pre.mines \cup {lastop.cell}
          /\ safes = pre.safes
          /\ moves_made = pre.moves_made
          /\ knowledge = CellTakenOut(pre.knowledge, lastop.cell, 1)
    /\ LastCall("mark_safe") =>
          /\ safes = pre.safes \cup {lastop.cell}
          /\ mines = pre.mines
          /\ moves_made = pre.moves_made
          /\ knowledge = CellTakenOut(pre.knowledge, lastop.cell, 0)

\* mark_mine(cell) was called on two sentences: one held the cell and is gone
\* or smaller, the other did not hold it and is still there.
C11_Witness ==
    /\ LastCall("mark_mine")
    /\ Len(pre.knowledge) = 2
    /\ \E i, j \in 1 .. 2 :
          /\ lastop.cell \in pre.knowledge[i].cells
          /\ lastop.cell \notin pre.knowledge[j].cells
          /\ pre.knowledge[j].cells # {}
          /\ \E n \in 1 .. Len(knowledge) : knowledge[n] = pre.knowledge[j]

\* C12 (Spec): when an add_knowledge call of a game has returned, no sentence
\* of knowledge holds a cell that is in safes or in mines; the cells built
\* for the new sentence leave out every neighbour that was in safes or in
\* mines when the call started, and its count is the observed count less
\* one for each neighbour that was in mines.
C12_NoKnownCellInSentence ==
    /\ LastCall("add_knowledge") =>
          \A s \in Sentences : s.cells \cap (safes \cup mines) = {}
    /\ (pc \in {"ak_mark", "ak_append"}) =>
          /\ loc.cells \cap (pre.safes \cup pre.mines) = {}
          /\ loc.count = lastop.count
                - Cardinality(Neighbors(lastop.cell) \cap pre.mines)

\* C13 (SpecDeduce): direct resolution is complete.  When an add_knowledge
\* call of a game has returned there is no sentence whose cells in mines number its
\* count while another of its cells is not in safes, and no sentence whose
\* cells outside safes number its count while one of them is not in mines.
C13_DirectResolutionComplete ==
    LastCall("add_knowledge") =>
        \A s \in Sentences :
           /\ (Cardinality(s.cells \cap mines) = s.count)
                 => (s.cells \ mines) \subseteq safes
           /\ (Cardinality(s.cells \ safes) = s.count)
                 => (s.cells \ safes) \subseteq mines

\* C14 (Spec): when an add_knowledge call has returned, knowledge holds no
\* sentence without cells.
C14_NoEmptySentence ==
    LastCall("add_knowledge") => \A s \in Sentences : s.cells # {}

(***************************************************************************)
(* SpecDeduce: a game in which, after an add_knowledge call has returned,  *)
(* the deduction may be run once more with no new observation:             *)
(* mark_mines_safes() followed by draw_interferences().  The grid has up   *)
(* to MaxSide rows and columns and the board up to MaxBoardMines mines.    *)
(***************************************************************************)
InitDeduce ==
    /\ height \in 1 .. MaxSide
    /\ width \in 1 .. MaxSide
    /\ board \in {b \in SUBSET ((0 .. height - 1) \X (0 .. width - 1)) :
                    Cardinality(b) <= MaxBoardMines}
    /\ InitAI

Deduce ==
    /\ pc = "idle"
    /\ lastop.op = "add_knowledge"
    /\ pc' = "mms"
    /\ loc' = [NoLoc EXCEPT !.snap = Ids(knowledge), !.pos = 1, !.caller = "ak"]
    /\ Call("deduce", NoCell, 0)
    /\ ret' = None
    /\ UNCHANGED <<height, width, board, moves_made, safes, mines, knowledge,
                   ncalls>>

NextDeduce ==
    \/ Observe
    \/ Deduce
    \/ AkMark
    \/ AkAppend
    \/ MmsMark
    \/ MmsReturn
    \/ DiResolve
    \/ DiPassEnd

SpecDeduce == InitDeduce /\ [][NextDeduce]_vars

\* C15 (SpecDeduce): the deduction reaches a fixpoint.  Running
\* mark_mines_safes and draw_interferences again after an add_knowledge call
\* of a game has returned changes none of safes, mines and knowledge at any
\* step; when add_knowledge has returned no sentence with cells has count 0
\* or as many cells as its count, and no two sentences with cells that
\* differ (in cells or count) have the cells of one inside the other's.
C15_DeductionFixpoint ==
    /\ lastop.op = "deduce" =>
          /\ safes = pre.safes
          /\ mines = pre.mines
          /\ knowledge = pre.knowledge
    /\ LastCall("add_knowledge") =>
          /\ \A s \in Sentences :
                s.cells # {} => (s.count # 0 /\ s.count # Cardinality(s.cells))
          /\ \A s, t \in Sentences :
                (s.cells # {} /\ t.cells # {} /\ ~SentenceEq(s, t))
                   => ~(s.cells \subseteq t.cells)

(***************************************************************************)
(* SpecDraw: draw_interferences() called on a knowledge base of two        *)
(* sentences, constructed from any cells of the grid and any count from -1 *)
(* to one more than the sentence has cells, in either order.               *)
(***************************************************************************)
SentenceCounts(cells) == -1 .. Cardinality(cells) + 1

InitDraw ==
    /\ height \in 1 .. MaxDrawCells
    /\ width \in 1 .. MaxDrawCells
    /\ height * width <= MaxDrawCells
    /\ board = {}
    /\ moves_made = {}
    /\ safes = {}
    /\ mines = {}
    /\ \E c1, c2 \in SUBSET ((0 .. height - 1) \X (0 .. width - 1)) :
          \E n1 \in SentenceCounts(c1) : \E n2 \in SentenceCounts(c2) :
             knowledge = <<Sentence(1, c1, n1), Sentence(2, c2, n2)>>
    /\ pc = "idle"
    /\ loc = NoLoc
    /\ ret = None
    /\ lastop = [op |-> "init", cell |-> NoCell, count |-> 0, rep |-> FALSE]
    /\ pre = [moves_made |-> {}, safes |-> {}, mines |-> {}, knowledge |-> <<>>]
    /\ ncalls = 0

\* Lines 298-305: drawn = True, the while loop is entered, the list is
\* copied and drawn = False.
DrawInterferences ==
    /\ pc = "idle"
    /\ lastop.op = "init"
    /\ pc' = "di"
    /\ loc' = [NoLoc EXCEPT !.snap = Ids(knowledge), !.pos = 1, !.caller = "di"]
    /\ Call("draw_interferences", NoCell, 0)
    /\ ret' = None
    /\ UNCHANGED <<height, width, board, moves_made, safes, mines, knowledge,
                   ncalls>>

NextDraw ==
    \/ DrawInterferences
    \/ DiResolve
    \/ DiPassEnd
    \/ MmsMark
    \/ MmsReturn

SpecDraw == InitDraw /\ [][NextDraw]_vars

\* B less A: the cells of B that are not in A, with the difference of the counts.
Less(B, A) == Sentence(B.id, B.cells \ A.cells, B.count - A.count)

\* C16 (SpecDraw): subset resolution.  When knowledge holds sentences A and
\* B, the cells of A a proper subset of the cells of B and not empty,
\* draw_interferences replaces B by B less A: that is the list at the end of
\* the pass that rewrote, and when the call has returned B less A is still
\* in knowledge with none of its cells in safes or mines if it has neither
\* count 0 nor as many cells as its count; else its cells are in mines (as
\* many cells as its count) or in safes (count 0) and in no sentence.
C16_SubsetResolution ==
    \A i, j \in 1 .. Len(pre.knowledge) :
       LET A == pre.knowledge[i]
           B == pre.knowledge[j]
           R == Less(B, A)
       IN  (/\ lastop.op = "draw_interferences"
            /\ A.cells # {}
            /\ A.cells \subseteq B.cells
            /\ A.cells # B.cells)
           =>
           /\ (pc = "mms" /\ loc.drawn /\ loc.pos = 1 /\ loc.pending = {}) =>
                 knowledge = [pre.knowledge EXCEPT ![j] = R]
           /\ (pc = "idle" /\ MmsKind(R) = "none") =>
                 /\ R \in Sentences
                 /\ R.cells \cap (safes \cup mines) = {}
           /\ (pc = "idle" /\ MmsKind(R) = "mine") =>
                 /\ R.cells \subseteq mines
                 /\ R.cells \cap safes = {}
                 /\ \A s \in Sentences : s.cells \cap R.cells = {}
           /\ (pc = "idle" /\ MmsKind(R) = "safe") =>
                 /\ R.cells \subseteq safes
                 /\ R.cells \cap mines = {}
                 /\ \A s \in Sentences : s.cells \cap R.cells = {}

\* A = {(0,0)} = 1 and B = {(0,0),(0,1),(0,2)} = 2: draw_interferences has
\* returned, B is {(0,1),(0,2)} = 1 and neither (0,1) nor (0,2) is in safes
\* or mines.
C16_Witness ==
    /\ LastCall("draw_interferences")
    /\ pre.knowledge = <<Sentence(1, {<<0, 0>>}, 1),
                         Sentence(2, {<<0, 0>>, <<0, 1>>, <<0, 2>>}, 2)>>
    /\ knowledge = <<Sentence(2, {<<0, 1>>, <<0, 2>>}, 1)>>
    /\ mines = {<<0, 0>>}
    /\ safes = {}

(***************************************************************************)
(* SpecAddFair: any caller of add_knowledge (any cell, in or just outside  *)
(* the grid, any count), up to MaxPrior calls on a grid of up to           *)
(* MaxAddCells cells.  A call that has started goes on: the interpreter    *)
(* always executes the next statement of the running call.                 *)
(***************************************************************************)
RunningStep ==
    \/ AkMark
    \/ AkAppend
    \/ MmsMark
    \/ MmsReturn
    \/ DiResolve
    \/ DiPassEnd

InitAdd ==
    /\ height \in 1 .. MaxAddCells
    /\ width \in 1 .. MaxAddCells
    /\ height * width <= MaxAddCells
    /\ board = {}
    /\ InitAI

NextAdd ==
    \/ PriorAddKnowledge
    \/ RunningStep

SpecAddFair == InitAdd /\ [][NextAdd]_vars /\ WF_vars(RunningStep)

RECURSIVE CellSum(_)
\* The sum over the sentences of k of the number of their cells.
CellSum(k) ==
    IF k = <<>> THEN 0 ELSE Cardinality(Head(k).cells) + CellSum(Tail(k))

\* C17 (SpecAddFair): every add_knowledge call terminates, whatever the
\* knowledge base and the input.  From the append of the new sentence on
\* (mark_mines_safes and draw_interferences) no step raises the sum over all
\* sentences of the number of their cells, every rewrite of
\* draw_interferences, the step that sets drawn, lowers it, and the call
\* returns.
C17_Terminates ==
    /\ [][/\ (pc \in {"mms", "di"}) => CellSum(knowledge') <= CellSum(knowledge)
          /\ (pc = "di" /\ pc' = "di") => CellSum(knowledge') < CellSum(knowledge)]_vars
    /\ (pc # "idle") ~> (pc = "idle")

\* An add_knowledge call with count -1 is inside draw_interferences, in a
\* pass that has rewritten a sentence, with two or more sentences.
C17_Witness ==
    /\ pc = "di"
    /\ loc.drawn
    /\ lastop.op = "add_knowledge"
    /\ lastop.count = -1
    /\ Len(knowledge) >= 2
    /\ CellSum(knowledge) >= 1

(***************************************************************************)
(* SpecOrder: a game in which an add_knowledge call that has returned is   *)
(* run a second time, with the same observation, from the state it started *)
(* in but with the sentences of knowledge stored in another order.         *)
(* lastop keeps the safes and mines the first run ended with.              *)
(***************************************************************************)
Orders(n) ==
    {f \in [1 .. n -> 1 .. n] : \A i, j \in 1 .. n : f[i] = f[j] => i = j}

Reordered(k, f) == [i \in 1 .. Len(k) |-> k[f[i]]]

Replay ==
    /\ pc = "idle"
    /\ lastop.op = "add_knowledge"
    /\ \E f \in Orders(Len(pre.knowledge)) :
          /\ Reordered(pre.knowledge, f) # pre.knowledge
          /\ AddKnowledgeOn([pre EXCEPT !.knowledge = Reordered(pre.knowledge, f)],
                            lastop.cell, lastop.count)
    /\ lastop' = [op |-> "replay", cell |-> lastop.cell, count |-> lastop.count,
                  rep |-> FALSE, safes |-> safes, mines |-> mines]
    /\ UNCHANGED <<height, width, board, pre, ncalls>>

NextOrder ==
    \/ Observe
    \/ Replay
    \/ AkMark
    \/ AkAppend
    \/ MmsMark
    \/ MmsReturn
    \/ DiResolve
    \/ DiPassEnd

SpecOrder == InitDeduce /\ [][NextOrder]_vars

\* C18 (SpecOrder): order independence.  For the same observation of a game
\* and the same sentences in knowledge, the safes and the mines add_knowledge
\* returns with do not depend on the order in which the sentences are stored.
C18_OrderIndependent ==
    LastCall("replay") => (safes = lastop.safes /\ mines = lastop.mines)

(***************************************************************************)
(* SpecCalls: any caller of the five public operations.  The calls of      *)
(* SpecMarks, with make_safe_move and make_random_move between them.       *)
(***************************************************************************)
NextCalls ==
    \/ PriorAddKnowledge
    \/ MarkOnce
    \/ MarkAgain
    \/ MakeSafeMove
    \/ MakeRandomMove
    \/ MoveReturn
    \/ AkMark
    \/ AkAppend
    \/ MmsMark
    \/ MmsReturn
    \/ DiResolve
    \/ DiPassEnd

SpecCalls == InitAny /\ [][NextCalls]_vars

\* The step is one of add_knowledge: its first, or one of the running call.
InAddKnowledge ==
    \/ pc \in {"ak_mark", "ak_append", "mms", "di"}
    \/ pc = "idle" /\ pc' \in {"ak_mark", "ak_append"}

\* No sentence that is in knowledge before and after the step gains a cell.
NoSentenceGains ==
    \A i \in 1 .. Len(knowledge) : \A j \in 1 .. Len(knowledge') :
       knowledge[i].id = knowledge'[j].id
          => knowledge'[j].cells \subseteq knowledge[i].cells

\* C19 (SpecCalls): knowledge is monotone.  Across any sequence of
\* add_knowledge, mark_mine, mark_safe, make_safe_move and make_random_move
\* calls no cell ever leaves moves_made, safes or mines, and between the
\* start and the return of add_knowledge no sentence of knowledge gains a
\* cell.
C19_Monotone ==
    [][/\ moves_made \subseteq moves_made'
       /\ safes \subseteq safes'
       /\ mines \subseteq mines'
       /\ InAddKnowledge => NoSentenceGains]_vars

\* A query is answered after an add_knowledge call that started with cells
\* in moves_made and safes, took a cell out of a stored sentence that is
\* still in knowledge, and enlarged safes and mines.
C19_Witness ==
    /\ pc \in {"safe_move", "random_move"}
    /\ ret # None
    /\ lastop.op = "add_knowledge"
    /\ pre.moves_made # {} /\ pre.safes # {}
    /\ pre.safes # safes
    /\ pre.mines # mines
    /\ \E i \in 1 .. Len(pre.knowledge) : \E j \in 1 .. Len(knowledge) :
          /\ pre.knowledge[i].id = knowledge[j].id
          /\ knowledge[j].cells # pre.knowledge[i].cells

====
